---- MODULE Spec2Model ----
(***************************************************************************)
(* Model of package encoders (registry, nonce selection, asset loaders)    *)
(* and of client/prelude/commands.go (RunCommand, execute).                *)
(*                                                                         *)
(* Byte strings are sequences of byte values.  Errors are strings, "nil"   *)
(* being Go's nil error.                                                   *)
(***************************************************************************)
EXTENDS Integers, Sequences, FiniteSets, TLC

VARIABLES
    Debug,                \* .Config.Debug of the build
    TrafficEnabled,       \* .Config.TrafficEncoders.Enabled of the build
    englishFile,          \* assetsFS entry "english.txt"
    EncoderMap,           \* var EncoderMap map[int]Encoder
    rawEnglishDictionary, \* the process-wide word list
    initPc,               \* position of func init()
    assetFiles,           \* loadWasmEncodersFromAssets: assetFiles
    idx,                  \* loadWasmEncodersFromAssets: position of the range loop
    err,                  \* init: err
    calls,                \* per caller: the call of EncoderFromNonce/RandomEncoder it is in
    execPc,               \* prelude: number of RunCommand calls made
    lastCall,             \* prelude: the last RunCommand call, its RPC request and return
    beaconCallbacks,      \* prelude: callbacks registered with implantBridge.BeaconCallback
    onFinishCalls,        \* prelude: invocations of onFinishCallback, in order
    lastFire              \* prelude: the last beacon task delivered to a callback

encVars == <<Debug, TrafficEnabled, englishFile, EncoderMap, rawEnglishDictionary,
             initPc, assetFiles, idx, err, calls>>
execVars == <<execPc, lastCall, beaconCallbacks, onFinishCalls, lastFire>>
vars == <<encVars, execVars>>

----------------------------------------------------------------------------
\* Bounds of the model

MaxAssets == 3      \* entries of the asset directory
MaxQuotient == 2    \* quotients tried for nonces handed to EncoderFromNonce
MaxTextLen == 3     \* bytes of the decompressed english.txt
MaxCommands == 2    \* RunCommand calls in one behaviour

Callers == {"s1", "s2"}

----------------------------------------------------------------------------
\* Constants of package encoders that are declared outside the two files

EncoderModulus == 8
MaxN == 2
Base64EncoderID == 1
HexEncoderID == 2
EnglishEncoderID == 3
GzipEncoderID == 4
PNGEncoderID == 5

\* Encoder values: the built-in encoder structs, traffic encoders, and nil
Builtin(kind) == [kind |-> kind, name |-> 0, bin |-> <<>>]
Base64 == Builtin("Base64Encoder")
Hex == Builtin("HexEncoder")
English == Builtin("EnglishEncoder")
Gzip == Builtin("GzipEncoder")
PNG == Builtin("PNGEncoder")
NoEncoder == Builtin("NoEncoder")
NilEncoder == Builtin("nil")

\* Go's % on int: truncated division, the result has the sign of the dividend
GoRem(a, b) == IF a >= 0 THEN a % b ELSE -((-a) % b)

\* an assignment that drops the other keys
MapReset(m, id, e) == [k \in {id} |-> e]

\* m[id] = e, as Go's map assignment
MapPut(m, id, e) == [k \in (DOMAIN m) \cup {id} |-> IF k = id THEN e ELSE m[k]]

\* var EncoderMap = map[int]Encoder{...}
InitialEncoderMap(debug) ==
    LET native == [k \in {Base64EncoderID, HexEncoderID, EnglishEncoderID,
                          GzipEncoderID, PNGEncoderID} |->
                      CASE k = Base64EncoderID -> Base64
                        [] k = HexEncoderID -> Hex
                        [] k = EnglishEncoderID -> English
                        [] k = GzipEncoderID -> Gzip
                        [] OTHER -> PNG]
    IN IF debug THEN MapPut(native, 0, NoEncoder) ELSE native

----------------------------------------------------------------------------
\* Gzip.Decode, traffic.CalculateWasmEncoderID, traffic.CreateTrafficEncoder

GzipEncode(data) == <<31, 139>> \o data
GzipDecode(blob) ==
    IF Len(blob) >= 2 /\ blob[1] = 31 /\ blob[2] = 139
    THEN [data |-> SubSeq(blob, 3, Len(blob)), err |-> "nil"]
    ELSE [data |-> <<>>, err |-> "gzip"]

RECURSIVE SumBytes(_)
SumBytes(s) == IF s = <<>> THEN 0 ELSE Head(s) + SumBytes(Tail(s))

\* a deterministic, content-derived id below the modulus
CalculateWasmEncoderID(bin) == SumBytes(bin) % EncoderModulus

\* instantiation fails on bytes that are no module
CreateTrafficEncoder(name, bin) ==
    IF bin = <<>>
    THEN [enc |-> NilEncoder, err |-> "create"]
    ELSE [enc |-> [kind |-> "TrafficEncoder", name |-> name, bin |-> bin], err |-> "nil"]

----------------------------------------------------------------------------
\* The asset directory: what assetsFS.ReadDir and assetsFS.ReadFile give

\* the files a bundle may hold, each under its own name: directories, other
\* files, and modules that are unreadable, not gzip, no module, or valid
\* (with content ids 0, 6, 1 and 6)
Entries ==
    { [name |-> 1, ext |-> "wasm", isDir |-> FALSE, readable |-> TRUE, data |-> <<6>>],
      [name |-> 2, ext |-> "wasm", isDir |-> FALSE, readable |-> TRUE, data |-> GzipEncode(<<8>>)],
      [name |-> 3, ext |-> "", isDir |-> TRUE, readable |-> FALSE, data |-> <<>>],
      [name |-> 4, ext |-> "wasm", isDir |-> FALSE, readable |-> TRUE, data |-> GzipEncode(<<6>>)],
      [name |-> 5, ext |-> "wasm", isDir |-> FALSE, readable |-> FALSE, data |-> <<>>],
      [name |-> 6, ext |-> "wasm", isDir |-> FALSE, readable |-> TRUE, data |-> GzipEncode(<<1>>)],
      [name |-> 7, ext |-> "txt", isDir |-> FALSE, readable |-> TRUE, data |-> GzipEncode(<<97>>)],
      [name |-> 8, ext |-> "wasm", isDir |-> FALSE, readable |-> TRUE, data |-> GzipEncode(<<3, 3>>)],
      [name |-> 9, ext |-> "wasm", isDir |-> FALSE, readable |-> TRUE, data |-> GzipEncode(<<>>)] }

RECURSIVE SortByName(_)
SortByName(S) ==
    IF S = {} THEN <<>>
    ELSE LET first == CHOOSE e \in S : \A f \in S : e.name <= f.name
         IN <<first>> \o SortByName(S \ {first})

\* what assetsFS.ReadDir(".") may return: the entries of a bundle, sorted
\* by filename
Listings ==
    { SortByName(S) : S \in { T \in SUBSET Entries : Cardinality(T) <= MaxAssets } }

\* assetsFS.ReadFile(assetFile.Name())
ReadFile(entry) ==
    IF entry.readable THEN [data |-> entry.data, err |-> "nil"]
    ELSE [data |-> <<>>, err |-> "read"]

----------------------------------------------------------------------------
\* strings.Split(s, "\n") and strings.TrimSpace

IsSpace(b) == b \in {9, 10, 11, 12, 13, 32}

RECURSIVE Split(_)
Split(s) ==
    IF \A i \in 1..Len(s) : s[i] # 10
    THEN <<s>>
    ELSE LET i == CHOOSE j \in 1..Len(s) :
                      s[j] = 10 /\ \A k \in 1..(j - 1) : s[k] # 10
         IN <<SubSeq(s, 1, i - 1)>> \o Split(SubSeq(s, i + 1, Len(s)))

RECURSIVE TrimSpace(_)
TrimSpace(s) ==
    IF s = <<>> THEN s
    ELSE IF IsSpace(Head(s)) THEN TrimSpace(Tail(s))
    ELSE IF IsSpace(s[Len(s)]) THEN TrimSpace(SubSeq(s, 1, Len(s) - 1))
    ELSE s

\* the words loadEnglishDictionaryFromAssets appends for a decompressed text
DictionaryWords(text) ==
    LET lines == Split(text)
    IN [i \in 1..Len(lines) |-> TrimSpace(lines[i])]

----------------------------------------------------------------------------
\* EncoderFromNonce and RandomEncoder

\* EncoderFromNonce with a fallback to Base64 for unknown ids
EncoderFromNonceFallback(m, nonce) ==
    LET encoderID == GoRem(nonce, EncoderModulus)
    IN IF encoderID = 0 THEN [id |-> 0, enc |-> NoEncoder, err |-> "nil"]
       ELSE IF encoderID \in DOMAIN m
            THEN [id |-> encoderID, enc |-> m[encoderID], err |-> "nil"]
       ELSE [id |-> Base64EncoderID, enc |-> m[Base64EncoderID], err |-> "nil"]

\* EncoderFromNonce without the special case for id 0
EncoderFromNonceLookupOnly(m, nonce) ==
    LET encoderID == GoRem(nonce, EncoderModulus)
    IN IF encoderID \in DOMAIN m
       THEN [id |-> encoderID, enc |-> m[encoderID], err |-> "nil"]
       ELSE [id |-> -1, enc |-> NilEncoder, err |-> "invalid encoder nonce"]

\* EncoderFromNonce(nonce) on registry m: (id, encoder, error)
EncoderFromNonce(m, nonce) ==
    LET encoderID == GoRem(nonce, EncoderModulus)
    IN IF encoderID = 0 THEN [id |-> 0, enc |-> NoEncoder, err |-> "nil"]
       ELSE IF encoderID \in DOMAIN m
            THEN [id |-> encoderID, enc |-> m[encoderID], err |-> "nil"]
       ELSE [id |-> -1, enc |-> NilEncoder, err |-> "invalid encoder nonce"]

\* the nonce RandomEncoder builds from the quotient q = insecureRand.Intn(MaxN)
MakeNonce(q, encoderID) == (q * EncoderModulus) + encoderID

Idle == [op |-> "none", st |-> "idle", arg |-> 0, nonce |-> 0, id |-> 0,
         enc |-> NilEncoder, err |-> "nil"]

\* nonces handed to EncoderFromNonce: any int, here a few residues around
\* a few quotients, negative ones included
NonceInputs ==
    { (q * EncoderModulus) + r : q \in {-1, 0, MaxQuotient}, r \in {0, 1, 6} }

InitDone == initPc \in {"ret42", "ret49", "ret51"}

\* a caller enters EncoderFromNonce(nonce); package init has completed
\* before any code outside the package runs
CallEncoderFromNonce(c, nonce) ==
    /\ InitDone
    /\ calls[c].st # "running"
    /\ calls' = [calls EXCEPT ![c] = [Idle EXCEPT !.op = "EncoderFromNonce",
                                                  !.st = "running", !.arg = nonce]]
    /\ UNCHANGED <<Debug, TrafficEnabled, englishFile, EncoderMap,
                   rawEnglishDictionary, initPc, assetFiles, idx, err, execVars>>

ReturnEncoderFromNonce(c) ==
    /\ calls[c].op = "EncoderFromNonce" /\ calls[c].st = "running"
    /\ LET r == EncoderFromNonce(EncoderMap, calls[c].arg)
       IN calls' = [calls EXCEPT ![c] = [@ EXCEPT !.st = "returned", !.id = r.id,
                                                  !.enc = r.enc, !.err = r.err]]
    /\ UNCHANGED <<Debug, TrafficEnabled, englishFile, EncoderMap,
                   rawEnglishDictionary, initPc, assetFiles, idx, err, execVars>>

CallRandomEncoder(c) ==
    /\ InitDone
    /\ calls[c].st # "running"
    /\ calls' = [calls EXCEPT ![c] = [Idle EXCEPT !.op = "RandomEncoder",
                                                  !.st = "running"]]
    /\ UNCHANGED <<Debug, TrafficEnabled, englishFile, EncoderMap,
                   rawEnglishDictionary, initPc, assetFiles, idx, err, execVars>>

\* a RandomEncoder that caches the selected encoder under its nonce
ReturnRandomEncoderCaching(c) ==
    /\ calls[c].op = "RandomEncoder" /\ calls[c].st = "running"
    /\ \E encoderID \in DOMAIN EncoderMap, q \in 0..(MaxN - 1) :
          /\ calls' = [calls EXCEPT ![c] = [@ EXCEPT !.st = "returned",
                                !.nonce = MakeNonce(q, encoderID),
                                !.id = encoderID, !.enc = EncoderMap[encoderID]]]
          /\ EncoderMap' = MapPut(EncoderMap, MakeNonce(q, encoderID), EncoderMap[encoderID])
    /\ UNCHANGED <<Debug, TrafficEnabled, englishFile,
                   rawEnglishDictionary, initPc, assetFiles, idx, err, execVars>>

\* keys are the keys of EncoderMap; the id is keys[Intn(len(keys))]
ReturnRandomEncoder(c) ==
    /\ calls[c].op = "RandomEncoder" /\ calls[c].st = "running"
    /\ \E encoderID \in DOMAIN EncoderMap, q \in 0..(MaxN - 1) :
          calls' = [calls EXCEPT ![c] = [@ EXCEPT !.st = "returned",
                                !.nonce = MakeNonce(q, encoderID),
                                !.id = encoderID, !.enc = EncoderMap[encoderID]]]
    /\ UNCHANGED <<Debug, TrafficEnabled, englishFile, EncoderMap,
                   rawEnglishDictionary, initPc, assetFiles, idx, err, execVars>>

----------------------------------------------------------------------------
\* func init() and the two loaders

\* what one pass of the loop body does with an entry of the listing:
\* skip it, fail with an error, or insert (id, encoder)
LoadEntry(entry) ==
    IF entry.isDir \/ entry.ext # "wasm"
    THEN [do |-> "skip", id |-> 0, enc |-> NilEncoder, err |-> "nil"]
    ELSE LET wasmEncoderModuleName == entry.name
             file == ReadFile(entry)
             gz == GzipDecode(file.data)
             wasmEncoderID == CalculateWasmEncoderID(gz.data)
             created == CreateTrafficEncoder(wasmEncoderModuleName, gz.data)
         IN IF file.err # "nil"
            THEN [do |-> "fail", id |-> 0, enc |-> NilEncoder, err |-> file.err]
            ELSE IF gz.err # "nil"
            THEN [do |-> "fail", id |-> 0, enc |-> NilEncoder, err |-> gz.err]
            ELSE IF created.err # "nil"
            THEN [do |-> "fail", id |-> 0, enc |-> NilEncoder, err |-> created.err]
            ELSE [do |-> "insert", id |-> wasmEncoderID, enc |-> created.enc,
                  err |-> "nil"]

\* init calls loadWasmEncodersFromAssets; the build has no traffic encoders:
\* the body is empty and nil is returned
LoadWasmDisabled ==
    /\ initPc = "init" /\ ~TrafficEnabled
    /\ initPc' = "wasmReturned"
    /\ err' = "nil"
    /\ UNCHANGED <<Debug, TrafficEnabled, englishFile, EncoderMap,
                   rawEnglishDictionary, assetFiles, idx, calls, execVars>>

\* assetFiles, err := assetsFS.ReadDir("."); the root of an embed.FS
\* always lists, so err is nil
LoadWasmReadDir ==
    /\ initPc = "init" /\ TrafficEnabled
    /\ \E listing \in Listings : assetFiles' = listing
    /\ idx' = 1
    /\ initPc' = "loop"
    /\ UNCHANGED <<Debug, TrafficEnabled, englishFile, EncoderMap,
                   rawEnglishDictionary, err, calls, execVars>>

\* a loop body that goes on to the next entry after a failure
LoadWasmEntryContinue ==
    /\ initPc = "loop" /\ idx <= Len(assetFiles)
    /\ LET r == LoadEntry(assetFiles[idx])
       IN /\ EncoderMap' = IF r.do = "insert" THEN MapPut(EncoderMap, r.id, r.enc)
                                                ELSE EncoderMap
          /\ idx' = idx + 1
          /\ initPc' = "loop"
          /\ err' = r.err
    /\ UNCHANGED <<Debug, TrafficEnabled, englishFile,
                   rawEnglishDictionary, assetFiles, calls, execVars>>

\* one pass of the loop body
LoadWasmEntry ==
    /\ initPc = "loop" /\ idx <= Len(assetFiles)
    /\ LET r == LoadEntry(assetFiles[idx])
       IN /\ EncoderMap' = IF r.do = "insert" THEN MapPut(EncoderMap, r.id, r.enc)
                                                ELSE EncoderMap
          /\ idx' = IF r.do = "fail" THEN idx ELSE idx + 1
          /\ initPc' = IF r.do = "fail" THEN "wasmReturned" ELSE "loop"
          /\ err' = r.err
    /\ UNCHANGED <<Debug, TrafficEnabled, englishFile,
                   rawEnglishDictionary, assetFiles, calls, execVars>>

\* the loop is over: return nil
LoadWasmDone ==
    /\ initPc = "loop" /\ idx > Len(assetFiles)
    /\ initPc' = "wasmReturned"
    /\ err' = "nil"
    /\ UNCHANGED <<Debug, TrafficEnabled, englishFile, EncoderMap,
                   rawEnglishDictionary, assetFiles, idx, calls, execVars>>

\* an init that logs the loader's error and goes on to the dictionary
InitAfterWasmContinue ==
    /\ initPc = "wasmReturned"
    /\ initPc' = "dict"
    /\ assetFiles' = <<>> /\ idx' = 0
    /\ UNCHANGED <<Debug, TrafficEnabled, englishFile, EncoderMap,
                   rawEnglishDictionary, err, calls, execVars>>

\* init, after loadWasmEncodersFromAssets has returned: log and return on
\* an error, else go on; the loader's locals are gone
InitAfterWasm ==
    /\ initPc = "wasmReturned"
    /\ initPc' = IF err # "nil" THEN "ret42" ELSE "dict"
    /\ assetFiles' = <<>> /\ idx' = 0
    /\ UNCHANGED <<Debug, TrafficEnabled, englishFile, EncoderMap,
                   rawEnglishDictionary, err, calls, execVars>>

\* assetsFS.ReadFile("english.txt")
ReadEnglish(file) ==
    IF file.exists THEN [data |-> file.data, err |-> "nil"]
    ELSE [data |-> <<>>, err |-> "read"]

\* a dictionary loader that drops empty words
LoadEnglishWordsNoEmpty(dict, file) ==
    LET englishData == ReadEnglish(file)
        gz == GzipDecode(englishData.data)
        words == DictionaryWords(gz.data)
    IN IF englishData.err # "nil" THEN [dict |-> dict, err |-> englishData.err]
       ELSE IF gz.err # "nil" THEN [dict |-> dict, err |-> gz.err]
       ELSE [dict |-> dict \o SelectSeq(words, LAMBDA w : w # <<>>), err |-> "nil"]

\* loadEnglishDictionaryFromAssets on word list dict: the new list, the error
LoadEnglishWords(dict, file) ==
    LET englishData == ReadEnglish(file)
        gz == GzipDecode(englishData.data)
    IN IF englishData.err # "nil" THEN [dict |-> dict, err |-> englishData.err]
       ELSE IF gz.err # "nil" THEN [dict |-> dict, err |-> gz.err]
       ELSE [dict |-> dict \o DictionaryWords(gz.data), err |-> "nil"]

\* init calls loadEnglishDictionaryFromAssets
LoadEnglishDictionary ==
    /\ initPc = "dict"
    /\ LET r == LoadEnglishWords(rawEnglishDictionary, englishFile)
       IN /\ rawEnglishDictionary' = r.dict
          /\ err' = r.err
    /\ initPc' = "dictReturned"
    /\ UNCHANGED <<Debug, TrafficEnabled, englishFile, EncoderMap,
                   assetFiles, idx, calls, execVars>>

\* init, after loadEnglishDictionaryFromAssets has returned
InitAfterDict ==
    /\ initPc = "dictReturned"
    /\ initPc' = IF err # "nil" THEN "ret49" ELSE "ret51"
    /\ UNCHANGED <<Debug, TrafficEnabled, englishFile, EncoderMap,
                   rawEnglishDictionary, assetFiles, idx, err, calls, execVars>>

----------------------------------------------------------------------------
\* client/prelude/commands.go.  Strings are sequences of characters.

ExecutorCmd == <<"c", "m", "d">>
ExecutorPsh == <<"p", "s", "h">>
ExecutorPowershell == <<"p", "o", "w", "e", "r", "s", "h", "e", "l", "l">>
ExecutorExec == <<"e", "x", "e", "c">>
ExecutorSh == <<"s", "h">>
ExecutorBof == <<"b", "o", "f">>
ExecutorPython == <<"p", "y">>
PowershellExe == ExecutorPowershell \o <<".", "e", "x", "e">>
Executors == {ExecutorCmd, ExecutorPsh, ExecutorPowershell, ExecutorExec,
              ExecutorSh, ExecutorBof, ExecutorPython}

SuccessExitStatus == 0

\* command strings: empty, blank, one field, several fields
Commands ==
    { <<>>, <<" ">>, <<"a">>, <<"a", " ", "b">>,
      <<" ", "a", "b", " ", " ", "b", " ">> }

IsSpaceChar(c) == c \in {" ", "\t", "\n", "\r"}

\* strings.Fields: the maximal runs of non-space characters
RECURSIVE Fields(_)
Fields(s) ==
    IF s = <<>> THEN <<>>
    ELSE IF IsSpaceChar(Head(s)) THEN Fields(Tail(s))
    ELSE LET n == IF \E j \in 1..Len(s) : IsSpaceChar(s[j])
                  THEN (CHOOSE j \in 1..Len(s) :
                           IsSpaceChar(s[j]) /\ \A k \in 1..(j - 1) : ~IsSpaceChar(s[k])) - 1
                  ELSE Len(s)
         IN <<SubSeq(s, 1, n)>> \o Fields(SubSeq(s, n + 1, Len(s)))

getCmdArg(executor) ==
    CASE executor = ExecutorCmd -> << <<"/", "S">>, <<"/", "C">> >>
      [] executor \in {ExecutorPowershell, ExecutorPsh} ->
            << <<"-", "e", "x", "e", "c", "u">>, <<"-", "C">> >>
      [] executor = ExecutorExec -> <<>>
      [] executor = ExecutorSh -> << <<"-", "c">> >>
      [] OTHER -> <<>>

\* what RPC.Execute answers: an error, or a response
RpcErrMsg == <<"x">>
Out == <<"o">>
RpcOutcomes ==
    { [err |-> TRUE, hasResponse |-> FALSE, async |-> FALSE, respErr |-> <<>>,
       stdout |-> <<>>, status |-> 0, pid |-> 0],
      [err |-> FALSE, hasResponse |-> FALSE, async |-> FALSE, respErr |-> <<>>,
       stdout |-> Out, status |-> 1, pid |-> 7],
      [err |-> FALSE, hasResponse |-> TRUE, async |-> FALSE, respErr |-> <<>>,
       stdout |-> Out, status |-> 1, pid |-> 7],
      [err |-> FALSE, hasResponse |-> TRUE, async |-> FALSE, respErr |-> <<"e">>,
       stdout |-> <<>>, status |-> 1, pid |-> 7],
      [err |-> FALSE, hasResponse |-> TRUE, async |-> TRUE, respErr |-> <<>>,
       stdout |-> <<>>, status |-> 0, pid |-> 0] }

NoRequest == [sent |-> FALSE, Path |-> <<>>, Args |-> <<>>]
NoReturn == <<<<>>, 0, 0>>
NoFinish == [invoke |-> FALSE, stdout |-> <<>>, status |-> 0, pid |-> 0]

\* an execute that also reports a session response through the callback
ExecuteFinishOnSession(cmd, executor, rpc) ==
    LET args0 == Append(getCmdArg(executor), cmd)
        path == IF executor = ExecutorPsh THEN PowershellExe ELSE executor
        req == [sent |-> TRUE, Path |-> path, Args |-> args0]
    IN IF rpc.err
       THEN [panic |-> FALSE, req |-> req, register |-> FALSE, finish |-> NoFinish,
             ret |-> <<<<"E", "r", "r", "o", "r", ":", " ">> \o RpcErrMsg \o <<"\n">>, -1, -1>>]
       ELSE IF rpc.hasResponse /\ rpc.async
       THEN [panic |-> FALSE, req |-> req, register |-> TRUE, finish |-> NoFinish,
             ret |-> <<<<>>, 0, 0>>]
       ELSE [panic |-> FALSE, req |-> req, register |-> FALSE,
             finish |-> [invoke |-> TRUE, stdout |-> rpc.stdout, status |-> rpc.status,
                         pid |-> rpc.pid],
             ret |-> <<rpc.stdout, rpc.status, rpc.pid>>]

\* execute(cmd, executor, implantBridge, onFinishCallback), given what the
\* RPC answers: whether it panics, the request it sends, whether it registers
\* a beacon callback, whether it invokes onFinishCallback, what it returns
Execute(cmd, executor, rpc) ==
    LET args0 == Append(getCmdArg(executor), cmd)
        commandSections == Fields(cmd)
        panics == executor = ExecutorExec /\ Len(commandSections) = 0
        path == IF executor = ExecutorPsh THEN PowershellExe
                ELSE IF executor = ExecutorExec /\ ~panics THEN commandSections[1]
                ELSE executor
        args == IF executor = ExecutorExec /\ ~panics THEN Tail(commandSections)
                ELSE args0
        req == [sent |-> TRUE, Path |-> path, Args |-> args]
    IN IF panics
       THEN [panic |-> TRUE, req |-> NoRequest, register |-> FALSE, finish |-> NoFinish,
             ret |-> NoReturn]
       ELSE IF rpc.err
       THEN [panic |-> FALSE, req |-> req, register |-> FALSE, finish |-> NoFinish,
             ret |-> <<<<"E", "r", "r", "o", "r", ":", " ">> \o RpcErrMsg \o <<"\n">>, -1, -1>>]
       ELSE IF rpc.hasResponse /\ rpc.async
       THEN [panic |-> FALSE, req |-> req, register |-> TRUE, finish |-> NoFinish,
             ret |-> <<<<>>, 0, 0>>]
       ELSE IF rpc.hasResponse /\ rpc.respErr # <<>>
       THEN [panic |-> FALSE, req |-> req, register |-> FALSE, finish |-> NoFinish,
             ret |-> <<rpc.respErr, SuccessExitStatus, SuccessExitStatus>>]
       ELSE [panic |-> FALSE, req |-> req, register |-> FALSE, finish |-> NoFinish,
             ret |-> <<rpc.stdout, rpc.status, rpc.pid>>]

\* the payload of a beacon task: bytes that unmarshal into an Execute
\* response, or bytes that do not
TaskResponses ==
    { [ok |-> FALSE, stdout |-> <<>>, status |-> 0, pid |-> 0],
      [ok |-> TRUE, stdout |-> Out, status |-> 0, pid |-> 7],
      [ok |-> TRUE, stdout |-> <<>>, status |-> 1, pid |-> 7] }

\* the closure handed to BeaconCallback, run on a task's response
BeaconTaskCallback(response) ==
    IF ~response.ok THEN NoFinish
    ELSE [invoke |-> TRUE, stdout |-> response.stdout, status |-> response.status,
          pid |-> response.pid]

NoCall == [path |-> "none", executor |-> <<>>, cmd |-> <<>>, rpc |-> "none",
           panic |-> FALSE, req |-> NoRequest, ret |-> NoReturn, task |-> 0]

Crashed == lastCall.panic

\* RunCommand with executor "bof" or "extension": runExtension, which is
\* outside this file, gives the result
RunCommandExtension ==
    /\ execPc < MaxCommands /\ ~Crashed
    /\ \E message \in Commands, status \in {0, -1} :
          lastCall' = [NoCall EXCEPT !.path = "runExtension", !.executor = ExecutorBof,
                                     !.cmd = message, !.ret = <<<<>>, status, 0>>]
    /\ execPc' = execPc + 1
    /\ UNCHANGED <<encVars, beaconCallbacks, onFinishCalls, lastFire>>

\* RunCommand with any other executor: execute
RunCommandExecute ==
    /\ execPc < MaxCommands /\ ~Crashed
    /\ \E message \in Commands, executor \in Executors \ {ExecutorBof},
          rpc \in RpcOutcomes :
          LET r == Execute(message, executor, rpc)
              taskID == execPc + 1
          IN /\ lastCall' = [path |-> "execute", executor |-> executor, cmd |-> message,
                             rpc |-> IF r.panic THEN "none"
                                     ELSE IF rpc.err THEN "error"
                                     ELSE IF rpc.hasResponse /\ rpc.async THEN "async"
                                     ELSE "sync",
                             panic |-> r.panic, req |-> r.req, ret |-> r.ret,
                             task |-> IF r.register THEN taskID ELSE 0]
             /\ beaconCallbacks' = IF r.register THEN beaconCallbacks \cup {taskID}
                                   ELSE beaconCallbacks
             /\ onFinishCalls' = IF r.finish.invoke
                                 THEN Append(onFinishCalls,
                                             [task |-> 0, stdout |-> r.finish.stdout,
                                              status |-> r.finish.status,
                                              pid |-> r.finish.pid])
                                 ELSE onFinishCalls
    /\ execPc' = execPc + 1
    /\ UNCHANGED <<encVars, lastFire>>

\* the bridge delivers the task of a registered callback, once
BeaconTaskDone ==
    /\ ~Crashed
    /\ \E task \in beaconCallbacks, response \in TaskResponses :
          LET f == BeaconTaskCallback(response)
          IN /\ lastFire' = [task |-> task, ok |-> response.ok]
             /\ beaconCallbacks' = beaconCallbacks \ {task}
             /\ onFinishCalls' = IF f.invoke
                                 THEN Append(onFinishCalls,
                                             [task |-> task, stdout |-> f.stdout,
                                              status |-> f.status, pid |-> f.pid])
                                 ELSE onFinishCalls
    /\ UNCHANGED <<encVars, execPc, lastCall>>

----------------------------------------------------------------------------
\* Specifications

EnglishTexts == UNION { [1..n -> {97, 32, 10}] : n \in 0..MaxTextLen }

\* english.txt: missing, not gzip, or the gzip of a text
EnglishFilesOf(texts) ==
    { [exists |-> FALSE, data |-> <<>>], [exists |-> TRUE, data |-> <<97, 10>>] }
    \cup { [exists |-> TRUE, data |-> GzipEncode(t)] : t \in texts }

InitPrelude ==
    /\ execPc = 0
    /\ lastCall = NoCall
    /\ beaconCallbacks = {}
    /\ onFinishCalls = <<>>
    /\ lastFire = [task |-> 0, ok |-> FALSE]

InitEncoders(texts) ==
    /\ Debug \in BOOLEAN
    /\ TrafficEnabled \in BOOLEAN
    /\ englishFile \in EnglishFilesOf(texts)
    /\ EncoderMap = InitialEncoderMap(Debug)
    /\ rawEnglishDictionary = <<>>
    /\ initPc = "init"
    /\ assetFiles = <<>>
    /\ idx = 0
    /\ err = "nil"
    /\ calls = [c \in Callers |-> Idle]

\* the encoders package: init, then callers of the registry
Init == InitEncoders({<<32, 97, 10, 97, 32, 97, 13, 10>>}) /\ InitPrelude

Next ==
    \/ LoadWasmDisabled
    \/ LoadWasmReadDir
    \/ LoadWasmEntry
    \/ LoadWasmDone
    \/ InitAfterWasm
    \/ LoadEnglishDictionary
    \/ InitAfterDict
    \/ \E c \in Callers, nonce \in NonceInputs : CallEncoderFromNonce(c, nonce)
    \/ \E c \in Callers : ReturnEncoderFromNonce(c)
    \/ \E c \in Callers : CallRandomEncoder(c)
    \/ \E c \in Callers : ReturnRandomEncoder(c)

Spec == Init /\ [][Next]_vars

\* init of a build without traffic encoders, over every english.txt
InitDict == InitEncoders(EnglishTexts) /\ ~TrafficEnabled /\ InitPrelude

NextDict ==
    \/ LoadWasmDisabled
    \/ InitAfterWasm
    \/ LoadEnglishDictionary
    \/ InitAfterDict

SpecDict == InitDict /\ [][NextDict]_vars

\* the prelude client: commands and beacon tasks
InitExec == InitEncoders({}) /\ ~Debug /\ ~TrafficEnabled /\ ~englishFile.exists
            /\ InitPrelude

NextExec ==
    \/ RunCommandExtension
    \/ RunCommandExecute
    \/ BeaconTaskDone

SpecExec == InitExec /\ [][NextExec]_vars

----------------------------------------------------------------------------
\* Claims about the registry and the nonce

ReturnedFrom(c, op) == calls[c].op = op /\ calls[c].st = "returned"

Candidates(listing) ==
    { i \in 1..Len(listing) : ~listing[i].isDir /\ listing[i].ext = "wasm" }
CorruptIn(listing) == { i \in Candidates(listing) : LoadEntry(listing[i]).do = "fail" }
ValidIn(listing) == { i \in Candidates(listing) : LoadEntry(listing[i]).do = "insert" }
Registered(i) ==
    LET r == LoadEntry(assetFiles[i])
    IN r.id \in DOMAIN EncoderMap /\ EncoderMap[r.id] = r.enc

RECURSIVE InsertedUpTo(_, _, _)
InsertedUpTo(m, listing, n) ==
    IF n = 0 THEN m
    ELSE LET before == InsertedUpTo(m, listing, n - 1)
             r == LoadEntry(listing[n])
         IN IF r.do = "insert"
            THEN [k \in (DOMAIN before) \cup {r.id} |->
                     IF k = r.id THEN r.enc ELSE before[k]]
            ELSE before

FirstCorrupt(listing) ==
    IF CorruptIn(listing) = {} THEN Len(listing) + 1
    ELSE CHOOSE i \in CorruptIn(listing) : \A j \in CorruptIn(listing) : i <= j

EnglishIsValid == LoadEnglishWords(<<>>, englishFile).err = "nil"

UnknownIdIsAnError ==
    [][ \A c \in Callers :
            (/\ calls[c].op = "EncoderFromNonce" /\ calls[c].st = "running"
             /\ calls'[c].st = "returned"
             /\ GoRem(calls[c].arg, EncoderModulus) # 0
             /\ GoRem(calls[c].arg, EncoderModulus) \notin DOMAIN EncoderMap)
                => /\ calls'[c].err # "nil"
                   /\ calls'[c].enc = NilEncoder
                   /\ calls'[c].enc \notin { EncoderMap[k] : k \in DOMAIN EncoderMap }
                   /\ EncoderMap' = EncoderMap ]_vars

\* EncoderFromNonce has failed on an unregistered id, once for a negative nonce
UnknownIdRejected ==
    /\ ReturnedFrom("s1", "EncoderFromNonce") /\ calls["s1"].err # "nil"
    /\ GoRem(calls["s1"].arg, EncoderModulus) = 6
    /\ ReturnedFrom("s2", "EncoderFromNonce") /\ calls["s2"].err # "nil"
    /\ calls["s2"].arg < 0

\* C6: EncoderFromNonce on a nonce with residue 0 returns id 0, the no-op
\* encoder and no error, whatever the registry holds
ZeroIdIsNoEncoder ==
    \A c \in Callers :
        (ReturnedFrom(c, "EncoderFromNonce") /\ GoRem(calls[c].arg, EncoderModulus) = 0)
            => /\ calls[c].id = 0
               /\ calls[c].enc = NoEncoder
               /\ calls[c].err = "nil"

\* residue 0 was resolved over a registry with a module at id 0
ZeroIdResolvedOverModule ==
    /\ ReturnedFrom("s1", "EncoderFromNonce")
    /\ calls["s1"].arg # 0 /\ GoRem(calls["s1"].arg, EncoderModulus) = 0
    /\ calls["s1"].enc = NoEncoder
    /\ 0 \in DOMAIN EncoderMap /\ EncoderMap[0].kind = "TrafficEncoder"

\* C7: once init has finished it stays finished and no step changes the
\* registry or the word list; no caller is inside EncoderFromNonce or
\* RandomEncoder before init has finished
FrozenAfterInit ==
    [][ /\ InitDone => /\ InitDone'
                       /\ EncoderMap' = EncoderMap
                       /\ rawEnglishDictionary' = rawEnglishDictionary
        /\ ~InitDone' => \A c \in Callers : calls'[c] = Idle ]_vars

\* two callers are inside the two functions at once, over a loaded registry
ConcurrentCallsAfterInit ==
    /\ InitDone
    /\ calls["s1"].st = "running" /\ calls["s1"].op = "RandomEncoder"
    /\ calls["s2"].st = "running" /\ calls["s2"].op = "EncoderFromNonce"
    /\ \E k \in DOMAIN EncoderMap : EncoderMap[k].kind = "TrafficEncoder"
    /\ rawEnglishDictionary # <<>>

----------------------------------------------------------------------------
\* Claims about the dictionary loader

\* the decompressed text of english.txt, when it is readable gzip
EnglishText == SubSeq(englishFile.data, 3, Len(englishFile.data))
EnglishReadable ==
    /\ englishFile.exists
    /\ Len(englishFile.data) >= 2
    /\ englishFile.data[1] = 31 /\ englishFile.data[2] = 139

NewlinesOf(text) == { j \in 1..Len(text) : text[j] = 10 }

\* line i of a text: what lies between newline i-1 and newline i
LineStart(text, i) ==
    IF i = 1 THEN 1
    ELSE 1 + CHOOSE p \in NewlinesOf(text) :
                 Cardinality({ q \in NewlinesOf(text) : q < p }) = i - 2
LineEnd(text, i) ==
    IF i = Cardinality(NewlinesOf(text)) + 1 THEN Len(text)
    ELSE (CHOOSE p \in NewlinesOf(text) :
              Cardinality({ q \in NewlinesOf(text) : q < p }) = i - 1) - 1

\* w is line[from..to] with only white space cut off at both ends
IsTrimmed(w, text, from, to) ==
    \E a \in from..(to + 1) : \E b \in (a - 1)..to :
        /\ w = SubSeq(text, a, b)
        /\ \A j \in from..(a - 1) : IsSpace(text[j])
        /\ \A j \in (b + 1)..to : IsSpace(text[j])
        /\ w # <<>> => (~IsSpace(w[1]) /\ ~IsSpace(w[Len(w)]))

\* C8: the step that runs loadEnglishDictionaryFromAssets leaves the
\* registry alone; when english.txt cannot be read or decompressed it returns
\* the error and the word list stays empty; otherwise the word list has one
\* word per line of the text (newlines plus one), in order, each the line
\* with its surrounding white space cut off, empty words included
DictionaryAllOrNothing ==
    [][ (initPc = "dict" /\ initPc' = "dictReturned") =>
          /\ EncoderMap' = EncoderMap
          /\ IF ~EnglishReadable
             THEN err' # "nil" /\ rawEnglishDictionary' = <<>>
             ELSE /\ err' = "nil"
                  /\ Len(rawEnglishDictionary')
                        = Cardinality(NewlinesOf(EnglishText)) + 1
                  /\ \A i \in 1..Len(rawEnglishDictionary') :
                        IsTrimmed(rawEnglishDictionary'[i], EnglishText,
                                  LineStart(EnglishText, i), LineEnd(EnglishText, i)) ]_vars

\* a text with a padded word and a trailing newline was loaded: the word
\* trimmed, the empty last line kept
DictionaryKeptEmptyWord ==
    /\ initPc = "dictReturned" /\ err = "nil"
    /\ EnglishText = <<32, 97, 10>>
    /\ rawEnglishDictionary = << <<97>>, <<>> >>

\* english.txt was no gzip: the word list is empty
DictionaryFailedEmpty ==
    initPc = "ret49" /\ englishFile.exists /\ rawEnglishDictionary = <<>>

----------------------------------------------------------------------------
\* Claims about execute

RpcErrorReturn ==
    <<<<"E", "r", "r", "o", "r", ":", " ">> \o RpcErrMsg \o <<"\n">>, -1, -1>>

\* C9: onFinishCallback is invoked only by a beacon callback that execute
\* registered earlier, on a task response that unmarshals; execute registers
\* a callback only when the RPC answered async, and then returns ("", 0, 0);
\* after an RPC error it returns ("Error: ...", -1, -1); no call of execute
\* invokes onFinishCallback itself
OnFinishOnlyOnBeaconPath ==
    [][ /\ onFinishCalls' # onFinishCalls
              => /\ execPc' = execPc /\ lastCall' = lastCall
                 /\ lastFire'.ok
                 /\ lastFire'.task \in beaconCallbacks
                 /\ Len(onFinishCalls') = Len(onFinishCalls) + 1
                 /\ onFinishCalls'[Len(onFinishCalls')].task = lastFire'.task
        /\ (execPc' # execPc /\ lastCall'.path = "execute")
              => /\ onFinishCalls' = onFinishCalls
                 /\ beaconCallbacks \subseteq beaconCallbacks'
                 /\ (beaconCallbacks' # beaconCallbacks)
                       <=> (lastCall'.rpc = "async")
                 /\ lastCall'.rpc = "async" => lastCall'.ret = <<<<>>, 0, 0>>
                 /\ lastCall'.rpc = "error" => lastCall'.ret = RpcErrorReturn ]_vars

\* a beacon callback has invoked onFinishCallback after an async execute,
\* and another task's response did not unmarshal
OnFinishInvokedByBeacon ==
    /\ Len(onFinishCalls) = 1 /\ onFinishCalls[1].task = 1
    /\ beaconCallbacks = {}
    /\ execPc = 2 /\ lastCall.rpc = "async"
    /\ lastFire = [task |-> 2, ok |-> FALSE]

\* C10: with executor "exec", execute issues the RPC with Path the first
\* field of cmd and Args the other fields, for every cmd
ExecAlwaysReachesRpc ==
    (lastCall.path = "execute" /\ lastCall.executor = ExecutorExec)
        => /\ ~lastCall.panic
           /\ lastCall.req.sent
           /\ lastCall.req.Path = Fields(lastCall.cmd)[1]
           /\ lastCall.req.Args = Tail(Fields(lastCall.cmd))

====
